---- MODULE Spec2Model ----
(***************************************************************************)
(* Atari preprocessing wrappers of stable_baselines3/common/               *)
(* atari_wrappers.py: NoopResetEnv, FireResetEnv, EpisodicLifeEnv,         *)
(* MaxAndSkipEnv, ClipRewardEnv, WarpFrame and their composition in        *)
(* AtariWrapper, driven by a training loop over a raw environment.         *)
(*                                                                         *)
(* A wrapper stack is a sequence of layer names, innermost first; level 0  *)
(* is the raw environment.  A call on level i is executed to completion,   *)
(* including every call it makes on level i-1, so one action of the model  *)
(* is one reset/step call of the training loop on the outermost layer.     *)
(* The raw environment is external: what it answers to each step (done,    *)
(* life count) is an input of the action; frames, rewards and infos follow *)
(* the environment's frame counter.  Rewards are integers (the code adds   *)
(* them to 0.0; rounding is not modelled).                                 *)
(***************************************************************************)
EXTENDS Integers, Sequences, FiniteSets, TLC

VARIABLES cfg, raw, obs_buffer, lives, was_real_done, prev, last

vars == <<cfg, raw, obs_buffer, lives, was_real_done, prev, last>>

(***************************************************************************)
(* Bounds of the model.                                                    *)
(***************************************************************************)
\* Largest life count of the raw environment.
MaxLives == 2
\* Largest frame skip of a MaxAndSkipEnv scenario.
MaxSkip == 3
\* Largest noop_max / override_num_noops of a NoopResetEnv scenario.
MaxNoops == 2
\* Raw steps of one call whose answers are free, AtariWrapper scenarios
\* (one wrapper on the raw environment: every raw step of a call).
MaxRawAtari == 2
\* frame_skip of the AtariWrapper scenarios.
AtariSkip == 2

(***************************************************************************)
(* Frames, rewards.                                                        *)
(***************************************************************************)
\* Frames are two pixels wide.
Zeros == <<0, 0>>
\* np.zeros(0): the empty array NoopResetEnv.reset starts from.
EmptyObs == <<>>
\* What the raw environment's reset returns.
ResetFrame == <<1, 1>>
\* The frame, reward and info of the raw step that moves the frame counter to t;
\* the counter runs modulo the period of the environment, at most NumFrames.
FrameTable == <<<<1, 0>>, <<0, 1>>, <<0, 0>>>>
RewardTable == <<1, -1, 2>>
NumFrames == Len(FrameTable)
FrameOf(t) == FrameTable[t + 1]
RewardOf(t) == RewardTable[t + 1]
InfoOf(t) == t

Max2(x, y) == IF x >= y THEN x ELSE y

\* self._obs_buffer.max(axis=0)
MaxFrame(buf) == [p \in 1..2 |-> Max2(buf[1][p], buf[2][p])]

\* np.sign
Sign(r) == IF r > 0 THEN 1 ELSE IF r < 0 THEN -1 ELSE 0

(***************************************************************************)
(* Calls and their results.  A world w is everything a call can read or    *)
(* write: the raw environment, every layer's fields, the answers the raw   *)
(* environment will give (orc), the random draws to come (rnd) and the log *)
(* of the calls made so far, each entered when it returns.                 *)
(***************************************************************************)
\* Marks "no action" in the log entry of a reset.
NoAct == -1

Ret(w, obs, reward, done, info, err) ==
    [w |-> w, obs |-> obs, reward |-> reward, done |-> done, info |-> info, err |-> err]

\* A raised exception: nothing is returned.
Raise(w) == Ret(w, EmptyObs, 0, FALSE, 0, TRUE)

Entry(i, op, a, r, l0) ==
    [lvl |-> i, op |-> op, act |-> a, obs |-> r.obs, reward |-> r.reward,
     done |-> r.done, info |-> r.info, l0 |-> l0, l1 |-> r.w.raw.lives, err |-> r.err]

\* The log keeps the calls on the raw environment and those the outermost
\* layer makes.
Logged(i, op, a, r, l0) ==
    IF i = 0 \/ i = Len(cfg.stack) - 1
    THEN [r EXCEPT !.w.log = Append(@, Entry(i, op, a, r, l0))]
    ELSE r

(***************************************************************************)
(* The raw environment (gym.Env with an ALE): external to the wrappers.    *)
(***************************************************************************)
\* The answer to the next raw step (done, and the life lost or won): free
\* while orc lasts, then uneventful.
Answer(w) ==
    IF w.orc = <<>> THEN [done |-> FALSE, dl |-> 0] ELSE Head(w.orc)

\* The life count after a raw step: it stays within 0..maxLives.
LivesAfter(n, dl) ==
    IF n + dl < 0 THEN 0 ELSE IF n + dl > cfg.maxLives THEN cfg.maxLives ELSE n + dl

RawStep(w, a) ==
    LET c == Answer(w)
        t == (w.raw.t + 1) % cfg.period
        w1 == [w EXCEPT !.raw = [lives |-> LivesAfter(w.raw.lives, c.dl),
                                 over |-> c.done, t |-> t],
                        !.orc = IF w.orc = <<>> THEN <<>> ELSE Tail(w.orc)]
    IN Ret(w1, FrameOf(t), RewardOf(t), c.done, InfoOf(t), FALSE)

RawReset(w) ==
    LET w1 == [w EXCEPT !.raw = [lives |-> cfg.maxLives, over |-> FALSE, t |-> @.t]]
    IN Ret(w1, ResetFrame, 0, FALSE, 0, FALSE)

\* self.env.unwrapped.ale.lives()
AleLives(w) == w.raw.lives

RECURSIVE EnvStep(_, _, _)
RECURSIVE EnvReset(_, _)

(***************************************************************************)
(* NoopResetEnv                                                            *)
(***************************************************************************)
\* self.unwrapped.np_random.randint(1, self.noop_max + 1)
Randint(w) == IF w.rnd = <<>> THEN 1 ELSE Head(w.rnd)

InRangeInclusive(k, noops) == k <= noops

\* line 39: for _ in range(noops), at iteration k
InRange(k, noops) == k < noops

ObsAfterDoneKept(stepObs, resetObs) == stepObs

\* lines 40-42: obs after a no-op step that ended the episode
ObsAfterDone(stepObs, resetObs) == resetObs

\* the for loop of reset at iteration k
RECURSIVE NoopLoop(_, _, _, _, _)
NoopLoop(i, w, k, noops, obs) ==
    IF ~InRange(k, noops) THEN Ret(w, obs, 0, FALSE, 0, FALSE)
    ELSE LET r == EnvStep(i - 1, w, 0)
         IN IF r.done
            THEN LET rr == EnvReset(i - 1, r.w)
                 IN IF rr.err THEN rr
                    ELSE NoopLoop(i, rr.w, k + 1, noops, ObsAfterDone(r.obs, rr.obs))
            ELSE NoopLoop(i, r.w, k + 1, noops, r.obs)

NoopsNotNegative(noops) == noops >= 0

\* line 37: assert noops > 0
NoopsPositive(noops) == noops > 0

NoopResetEnv_reset(i, w) ==
    LET r0 == EnvReset(i - 1, w)
    IN IF r0.err THEN r0
       ELSE IF (~cfg.has_override) /\ cfg.noop_max < 1 THEN Raise(r0.w)
       ELSE LET noops == IF cfg.has_override THEN cfg.override_num_noops
                         ELSE Randint(r0.w)
                w1 == IF cfg.has_override \/ r0.w.rnd = <<>> THEN r0.w
                      ELSE [r0.w EXCEPT !.rnd = Tail(@)]
            IN IF ~NoopsPositive(noops) THEN Raise(w1)
               ELSE NoopLoop(i, w1, 0, noops, EmptyObs)

\* gym.Wrapper.step
NoopResetEnv_step(i, w, a) == EnvStep(i - 1, w, a)

(***************************************************************************)
(* FireResetEnv                                                            *)
(***************************************************************************)
AfterFirstNever(done) == FALSE
AfterSecondNever(done) == FALSE

\* line 60, line 63: whether the inner reset follows the step
AfterFirst(done) == done
AfterSecond(done) == done

\* lines 62-65: the step with action 2 and what follows it
FireSecond(i, w) ==
    LET r2 == EnvStep(i - 1, w, 2)
    IN IF AfterSecond(r2.done)
       THEN LET r3 == EnvReset(i - 1, r2.w)
            IN IF r3.err THEN r3 ELSE Ret(r3.w, r2.obs, 0, FALSE, 0, FALSE)
       ELSE Ret(r2.w, r2.obs, 0, FALSE, 0, FALSE)

FireResetEnv_reset(i, w) ==
    LET r0 == EnvReset(i - 1, w)
    IN IF r0.err THEN r0
       ELSE LET r1 == EnvStep(i - 1, r0.w, 1)
            IN IF AfterFirst(r1.done)
               THEN LET rr == EnvReset(i - 1, r1.w)
                    IN IF rr.err THEN rr ELSE FireSecond(i, rr.w)
               ELSE FireSecond(i, r1.w)

\* gym.Wrapper.step
FireResetEnv_step(i, w, a) == EnvStep(i - 1, w, a)

(***************************************************************************)
(* EpisodicLifeEnv                                                         *)
(***************************************************************************)
LifeLostStrict(now, stored) == 1 < now /\ now < stored
LifeLostOrGone(now, stored) == now < stored

\* line 86: 0 < lives < self.lives
LifeLost(now, stored) == 0 < now /\ now < stored

EpisodicLifeEnv_step(i, w, a) ==
    LET r == EnvStep(i - 1, w, a)
        now == AleLives(r.w)
        done == IF LifeLost(now, r.w.lives) THEN TRUE ELSE r.done
        w1 == [r.w EXCEPT !.wrd = r.done, !.lives = now]
    IN Ret(w1, r.obs, r.reward, done, r.info, FALSE)

ResetsInnerFlipped(w) == ~w.wrd

\* line 103: which branch reset takes
ResetsInner(w) == w.wrd

EpisodicLifeEnv_resetStale(i, w) ==
    IF ResetsInner(w) THEN EnvReset(i - 1, w)
    ELSE LET r == EnvStep(i - 1, w, 0) IN Ret(r.w, r.obs, 0, FALSE, 0, FALSE)

EpisodicLifeEnv_reset(i, w) ==
    LET r == IF ResetsInner(w) THEN EnvReset(i - 1, w) ELSE EnvStep(i - 1, w, 0)
    IN IF r.err THEN r
       ELSE Ret([r.w EXCEPT !.lives = AleLives(r.w)], r.obs, 0, FALSE, 0, FALSE)

(***************************************************************************)
(* MaxAndSkipEnv                                                           *)
(***************************************************************************)
WritesSlot0First(k, skip) == k = 0
WritesSlot1Always(k, skip) == TRUE
AddRewardLast(total, reward) == reward

\* lines 137, 139: the iteration that writes buffer slot 0, slot 1
WritesSlot0(k, skip) == k = skip - 2
WritesSlot1(k, skip) == k = skip - 1

\* line 141
AddReward(total, reward) == total + reward

\* the for loop of step at iteration k; tot is total_reward so far
RECURSIVE SkipLoop(_, _, _, _, _, _)
SkipLoop(i, w, a, k, tot, lastr) ==
    IF k >= cfg.skip THEN Ret(w, MaxFrame(w.buf), tot, lastr.done, lastr.info, FALSE)
    ELSE LET r == EnvStep(i - 1, w, a)
             b0 == IF WritesSlot0(k, cfg.skip) THEN r.obs ELSE r.w.buf[1]
             b1 == IF WritesSlot1(k, cfg.skip) THEN r.obs ELSE r.w.buf[2]
             w1 == [r.w EXCEPT !.buf = <<b0, b1>>]
             t1 == AddReward(tot, r.reward)
         IN IF r.done THEN Ret(w1, MaxFrame(w1.buf), t1, r.done, r.info, FALSE)
            ELSE SkipLoop(i, w1, a, k + 1, t1, r)

MaxAndSkipEnv_step(i, w, a) == SkipLoop(i, w, a, 0, 0, Raise(w))

MaxAndSkipEnv_resetClears(i, w) ==
    EnvReset(i - 1, [w EXCEPT !.buf = <<Zeros, Zeros>>])

MaxAndSkipEnv_reset(i, w) == EnvReset(i - 1, w)

(***************************************************************************)
(* ClipRewardEnv, WarpFrame                                                *)
(***************************************************************************)
ClipRewardEnv_rewardKept(reward) == reward

\* ClipRewardEnv.reward
ClipRewardEnv_reward(reward) == Sign(reward)

\* gym.RewardWrapper.step
ClipRewardEnv_step(i, w, a) ==
    LET r == EnvStep(i - 1, w, a)
    IN [r EXCEPT !.reward = ClipRewardEnv_reward(@)]

\* WarpFrame.observation: the resized grayscale image of the frame, kept as
\* the frame it was made from and the shape it is given.
WarpFrame_observation(frame) == [gray |-> frame, shape |-> <<84, 84, 1>>]

\* gym.ObservationWrapper.step / reset
WarpFrame_step(i, w, a) ==
    LET r == EnvStep(i - 1, w, a)
    IN [r EXCEPT !.obs = WarpFrame_observation(@)]

WarpFrame_reset(i, w) ==
    LET r == EnvReset(i - 1, w)
    IN IF r.err THEN r ELSE [r EXCEPT !.obs = WarpFrame_observation(@)]

(***************************************************************************)
(* self.env.step / self.env.reset: the call on level i of the stack.       *)
(***************************************************************************)
EnvStep(i, w, a) ==
    LET l0 == w.raw.lives
        r == IF i = 0 THEN RawStep(w, a)
             ELSE CASE cfg.stack[i] = "NoopResetEnv" -> NoopResetEnv_step(i, w, a)
                    [] cfg.stack[i] = "MaxAndSkipEnv" -> MaxAndSkipEnv_step(i, w, a)
                    [] cfg.stack[i] = "EpisodicLifeEnv" -> EpisodicLifeEnv_step(i, w, a)
                    [] cfg.stack[i] = "FireResetEnv" -> FireResetEnv_step(i, w, a)
                    [] cfg.stack[i] = "WarpFrame" -> WarpFrame_step(i, w, a)
                    [] cfg.stack[i] = "ClipRewardEnv" -> ClipRewardEnv_step(i, w, a)
    IN Logged(i, "step", a, r, l0)

EnvReset(i, w) ==
    LET l0 == w.raw.lives
        r == IF i = 0 THEN RawReset(w)
             ELSE CASE cfg.stack[i] = "NoopResetEnv" -> NoopResetEnv_reset(i, w)
                    [] cfg.stack[i] = "MaxAndSkipEnv" -> MaxAndSkipEnv_reset(i, w)
                    [] cfg.stack[i] = "EpisodicLifeEnv" -> EpisodicLifeEnv_reset(i, w)
                    [] cfg.stack[i] = "FireResetEnv" -> FireResetEnv_reset(i, w)
                    [] cfg.stack[i] = "WarpFrame" -> WarpFrame_reset(i, w)
                    [] cfg.stack[i] = "ClipRewardEnv" -> EnvReset(i - 1, w)
    IN Logged(i, "reset", NoAct, r, l0)

(***************************************************************************)
(* Configurations.                                                         *)
(***************************************************************************)
\* The action names of a game that needs FIRE, and of one that does not.
FireGame == <<"NOOP", "FIRE", "RIGHT", "LEFT">>
PlainGame == <<"NOOP", "UP", "DOWN">>

Config(stack, maxLives, skip, noop_max, has_override, override_num_noops, horizon) ==
    [stack |-> stack, maxLives |-> maxLives, skip |-> skip, noop_max |-> noop_max,
     has_override |-> has_override, override_num_noops |-> override_num_noops,
     horizon |-> horizon, period |-> NumFrames, meanings |-> FireGame,
     terminal_on_life_loss |-> FALSE, clip_reward |-> FALSE,
     ctor |-> IF Len(stack) = 1 THEN stack[1] ELSE "AtariWrapper", built |-> TRUE,
     trace |-> FALSE]

AtariWrapperNoLife(meanings, terminal_on_life_loss, clip_reward) ==
    <<"NoopResetEnv", "MaxAndSkipEnv">>
    \o (IF \E k \in 1..Len(meanings) : meanings[k] = "FIRE"
        THEN <<"FireResetEnv">> ELSE <<>>)
    \o <<"WarpFrame">>
    \o (IF clip_reward THEN <<"ClipRewardEnv">> ELSE <<>>)

AtariWrapperFireFirst(meanings, terminal_on_life_loss, clip_reward) ==
    <<"NoopResetEnv", "MaxAndSkipEnv">>
    \o (IF \E k \in 1..Len(meanings) : meanings[k] = "FIRE"
        THEN <<"FireResetEnv">> ELSE <<>>)
    \o (IF terminal_on_life_loss THEN <<"EpisodicLifeEnv">> ELSE <<>>)
    \o <<"WarpFrame">>
    \o (IF clip_reward THEN <<"ClipRewardEnv">> ELSE <<>>)

AtariWrapperSkipFirst(meanings, terminal_on_life_loss, clip_reward) ==
    <<"MaxAndSkipEnv", "NoopResetEnv">>
    \o (IF terminal_on_life_loss THEN <<"EpisodicLifeEnv">> ELSE <<>>)
    \o (IF \E k \in 1..Len(meanings) : meanings[k] = "FIRE"
        THEN <<"FireResetEnv">> ELSE <<>>)
    \o <<"WarpFrame">>
    \o (IF clip_reward THEN <<"ClipRewardEnv">> ELSE <<>>)

\* AtariWrapper.__init__: the layers it nests, innermost first.
AtariWrapper(meanings, terminal_on_life_loss, clip_reward) ==
    <<"NoopResetEnv", "MaxAndSkipEnv">>
    \o (IF terminal_on_life_loss THEN <<"EpisodicLifeEnv">> ELSE <<>>)
    \o (IF \E k \in 1..Len(meanings) : meanings[k] = "FIRE"
        THEN <<"FireResetEnv">> ELSE <<>>)
    \o <<"WarpFrame">>
    \o (IF clip_reward THEN <<"ClipRewardEnv">> ELSE <<>>)

\* line 29: the assert of NoopResetEnv.__init__ passes (action 0 is the first
\* name; a missing name raises as well)
NoopResetEnv_init(meanings) == Len(meanings) >= 1 /\ meanings[1] = "NOOP"

FireResetEnv_initAnyIndex(meanings) ==
    Len(meanings) >= 3 /\ \E k \in 1..Len(meanings) : meanings[k] = "FIRE"

\* lines 54-55: the asserts of FireResetEnv.__init__ pass
FireResetEnv_init(meanings) ==
    Len(meanings) >= 2 /\ meanings[2] = "FIRE" /\ Len(meanings) >= 3

\* line 244: "FIRE" in env.unwrapped.get_action_meanings()
HasFire(meanings) == \E k \in 1..Len(meanings) : meanings[k] = "FIRE"

\* AtariWrapper.__init__ returns: no constructor it calls has raised.
AtariWrapper_init(meanings) ==
    NoopResetEnv_init(meanings) /\ (HasFire(meanings) => FireResetEnv_init(meanings))

\* Default arguments of the constructors.
DefaultSkip == 4
DefaultNoopMax == 30

\* One wrapper on the raw environment.
NoopConfigs ==
    {Config(<<"NoopResetEnv">>, 0, DefaultSkip, m, FALSE, 0, m) : m \in 1..MaxNoops}
    \cup {Config(<<"NoopResetEnv">>, 0, DefaultSkip, DefaultNoopMax, TRUE, n, n) :
            n \in 1..MaxNoops}
FireConfigs ==
    {Config(<<"FireResetEnv">>, 0, DefaultSkip, DefaultNoopMax, FALSE, 0, 2)}
LifeConfigs ==
    {Config(<<"EpisodicLifeEnv">>, MaxLives, DefaultSkip, DefaultNoopMax, FALSE, 0, 1)}
SkipConfigs ==
    {Config(<<"MaxAndSkipEnv">>, 0, k, DefaultNoopMax, FALSE, 0, k) : k \in 1..MaxSkip}
\* NoopResetEnv constructed with a noop_max or an override_num_noops that
\* allows no no-op.
BadNoopConfigs ==
    {Config(<<"NoopResetEnv">>, 0, DefaultSkip, m, FALSE, 0, 1) : m \in {-1, 0}}
    \cup {Config(<<"NoopResetEnv">>, 0, DefaultSkip, DefaultNoopMax, TRUE, n, 1) :
            n \in {-1, 0}}
LayerConfigs ==
    NoopConfigs \cup FireConfigs \cup LifeConfigs \cup SkipConfigs \cup BadNoopConfigs

\* AtariWrapper(env, frame_skip = AtariSkip, override_num_noops = 1,
\* terminal_on_life_loss = tol, clip_reward = clip) on a game with these action
\* names and a still screen (every raw step shows the same frame).
AtariConfig(meanings, tol, clip) ==
    [Config(AtariWrapper(meanings, tol, clip), MaxLives, AtariSkip, DefaultNoopMax,
            TRUE, 1, MaxRawAtari)
     EXCEPT !.period = 1, !.meanings = meanings, !.terminal_on_life_loss = tol,
            !.clip_reward = clip]

\* The same on a game without lives whose screen and rewards change with
\* every raw step, the calls on the raw environment being recorded.
MovingConfig(meanings, tol, clip) ==
    [AtariConfig(meanings, tol, clip)
     EXCEPT !.maxLives = 0, !.period = NumFrames, !.trace = TRUE]

\* AtariWrapper(env, frame_skip = AtariSkip, override_num_noops = n) on a game
\* with FIRE, the calls on the raw environment being recorded; the answer to
\* the first raw step of each call is free.
RecordedConfig(n) ==
    [AtariConfig(FireGame, TRUE, TRUE)
     EXCEPT !.override_num_noops = n, !.horizon = 1, !.trace = TRUE]

AtariConfigs == {AtariConfig(m, TRUE, TRUE) : m \in {FireGame, PlainGame}}
MovingConfigs == {MovingConfig(m, TRUE, TRUE) : m \in {FireGame, PlainGame}}
RecordedConfigs == MovingConfigs \cup {RecordedConfig(n) : n \in 1..MaxNoops}

(***************************************************************************)
(* Construction on environments with any action names.                     *)
(***************************************************************************)
\* Largest number of actions of an environment.
MaxActions == 3

ActionNames == {"NOOP", "FIRE", "UP", "DOWN"}

\* The action names an environment may report: every action has its own name.
MeaningSets ==
    UNION {{q \in [1..n -> ActionNames] : \A j, k \in 1..n : j # k => q[j] # q[k]} :
             n \in 0..MaxActions}

\* What a constructor call leaves: the wrapper, or nothing if it raised.
Constructed(c, ctor, ok) ==
    [c EXCEPT !.ctor = ctor, !.built = ok, !.stack = IF ok THEN @ ELSE <<>>]

\* NoopResetEnv(env, override_num_noops = 1), FireResetEnv(env) and
\* AtariWrapper(env, frame_skip = AtariSkip, override_num_noops = 1, ...) on a
\* game without lives and with a still screen.
BuildNoop(meanings) ==
    Constructed([Config(<<"NoopResetEnv">>, 0, DefaultSkip, DefaultNoopMax, TRUE, 1, 1)
                   EXCEPT !.meanings = meanings, !.period = 1],
                "NoopResetEnv", NoopResetEnv_init(meanings))
BuildFire(meanings) ==
    Constructed([Config(<<"FireResetEnv">>, 0, DefaultSkip, DefaultNoopMax, FALSE, 0, 1)
                   EXCEPT !.meanings = meanings, !.period = 1],
                "FireResetEnv", FireResetEnv_init(meanings))
BuildAtari(meanings, tol, clip) ==
    Constructed([AtariConfig(meanings, tol, clip) EXCEPT !.maxLives = 0, !.horizon = 1],
                "AtariWrapper", AtariWrapper_init(meanings))

BuildConfigs ==
    {BuildNoop(m) : m \in MeaningSets}
    \cup {BuildFire(m) : m \in MeaningSets}
    \cup {BuildAtari(m, tol, clip) : m \in MeaningSets, tol \in BOOLEAN, clip \in BOOLEAN}

(***************************************************************************)
(* The training loop: one reset or step call on the outermost layer.       *)
(***************************************************************************)
Top == Len(cfg.stack)

\* The actions the training loop chooses from.
Actions == {0, 2}

\* What the raw environment may answer to one step.
Answers == [done : BOOLEAN, dl : IF cfg.maxLives = 0 THEN {0} ELSE {-1, 0, 1}]
Oracles == [1..cfg.horizon -> Answers]

\* The random draws of one call: one free draw, where a draw is made at all.
Draws ==
    IF /\ \E k \in 1..Top : cfg.stack[k] = "NoopResetEnv"
       /\ ~cfg.has_override /\ cfg.noop_max >= 1
    THEN {<<d>> : d \in 1..cfg.noop_max}
    ELSE {<<>>}

World(o, rnd) ==
    [raw |-> raw, buf |-> obs_buffer, lives |-> lives, wrd |-> was_real_done,
     orc |-> o, rnd |-> rnd, log |-> <<>>]

TopReset(o, rnd) == EnvReset(Top, World(o, rnd))
TopStep(a, o) == EnvStep(Top, World(o, <<>>), a)

\* The calls a result's log holds on level i, in order.
RECURSIVE CallsAt(_, _)
CallsAt(log, i) ==
    IF log = <<>> THEN <<>>
    ELSE IF Head(log).lvl = i THEN <<Head(log)>> \o CallsAt(Tail(log), i)
    ELSE CallsAt(Tail(log), i)

\* What the state keeps of a call (last: the latest call; prev: the latest
\* step call, which last is when the latest call is a step): what it returned to the training loop and
\* the calls its outermost layer made on the layer below.
Brief(e) ==
    [op |-> e.op, act |-> e.act, obs |-> e.obs, reward |-> e.reward,
     done |-> e.done, info |-> e.info]
\* What the state keeps of a call on the raw environment, where the
\* configuration has them recorded.
RawBrief(e) == [op |-> e.op, act |-> e.act, reward |-> e.reward]
Summary(op, a, r) ==
    LET inner == CallsAt(r.w.log, Top - 1)
        rawc == CallsAt(r.w.log, 0)
    IN [op |-> op, act |-> a, obs |-> r.obs, reward |-> r.reward, done |-> r.done,
        info |-> r.info, err |-> r.err, after |-> last.op,
        calls |-> [k \in 1..Len(inner) |-> Brief(inner[k])],
        rawCalls |-> IF cfg.trace THEN [k \in 1..Len(rawc) |-> RawBrief(rawc[k])]
                     ELSE <<>>,
        rawResets |-> Cardinality({k \in 1..Len(rawc) : rawc[k].op = "reset"}),
        rawDone |-> \E k \in 1..Len(rawc) : rawc[k].done,
        rawLifeLost |-> cfg.trace /\ \E k \in 1..Len(rawc) : rawc[k].l1 < rawc[k].l0]

\* What the state keeps of the latest step call.
StepSummary(r) ==
    LET inner == CallsAt(r.w.log, Top - 1)
        rawc == CallsAt(r.w.log, 0)
    IN [stepped |-> TRUE, obs |-> r.obs, done |-> r.done,
        idone |-> inner[Len(inner)].done,
        l0 |-> raw.lives, l1 |-> r.w.raw.lives,
        rawDone |-> \E k \in 1..Len(rawc) : rawc[k].done,
        rawLost |-> \E k \in 1..Len(rawc) :
                       /\ ~rawc[k].done /\ 0 < rawc[k].l1 /\ rawc[k].l1 < rawc[k].l0]

NoStep ==
    [stepped |-> FALSE, obs |-> EmptyObs, done |-> FALSE, idone |-> FALSE,
     l0 |-> 0, l1 |-> 0,
     rawDone |-> FALSE, rawLost |-> FALSE]

NoCall ==
    [op |-> "none", act |-> NoAct, obs |-> EmptyObs, reward |-> 0, done |-> FALSE,
     info |-> 0, err |-> FALSE, after |-> "none",
     calls |-> <<>>, rawCalls |-> <<>>, rawResets |-> 0, rawDone |-> FALSE,
     rawLifeLost |-> FALSE]

Commit(op, a, r) ==
    /\ raw' = r.w.raw
    /\ obs_buffer' = r.w.buf
    /\ lives' = r.w.lives
    /\ was_real_done' = r.w.wrd
    /\ prev' = IF op = "step" THEN StepSummary(r) ELSE prev
    /\ last' = Summary(op, a, r)
    /\ UNCHANGED cfg

\* A call needs a wrapper: a constructor that raised has returned none.
Reset ==
    /\ cfg.built
    /\ \E o \in Oracles, rnd \in Draws : Commit("reset", NoAct, TopReset(o, rnd))

\* step is called once a reset has returned.
Step ==
    /\ cfg.built
    /\ last.op # "none" /\ ~last.err
    /\ \E a \in Actions, o \in Oracles : Commit("step", a, TopStep(a, o))

InitWith(configs) ==
    /\ cfg \in configs
    /\ raw = [lives |-> cfg.maxLives, over |-> FALSE, t |-> 0]
    /\ obs_buffer = <<Zeros, Zeros>>
    /\ lives = 0
    /\ was_real_done = TRUE
    /\ prev = NoStep
    /\ last = NoCall

\* A training loop that calls reset first and then exactly after each step
\* that returned done.
DrivenReset ==
    /\ last.op = "none" \/ (last.op = "step" /\ last.done)
    /\ Reset

DrivenStep ==
    /\ ~(last.op = "step" /\ last.done)
    /\ Step

Init == InitWith(LayerConfigs)
InitDriven == InitWith(LifeConfigs)
InitAtari == InitWith(AtariConfigs)
InitBuild == InitWith(BuildConfigs)
InitRecorded == InitWith(RecordedConfigs)

Next == Reset \/ Step
NextDriven == DrivenReset \/ DrivenStep

Spec == Init /\ [][Next]_vars
SpecAtari == InitAtari /\ [][Next]_vars
SpecBuild == InitBuild /\ [][Next]_vars
SpecRecorded == InitRecorded /\ [][Next]_vars
SpecDriven == InitDriven /\ [][NextDriven]_vars

(***************************************************************************)
(* EpisodicLifeEnv on the raw environment.                                 *)
(***************************************************************************)
TopIs(layer) == cfg.stack[Top] = layer

\* The latest step call's inner step took exactly one life and did not report
\* done.
LostOneLife == prev.stepped /\ ~prev.idone /\ prev.l1 = prev.l0 - 1

\* The latest call is a reset that directly follows a step call.
ResetAfterStep == last.op = "reset" /\ last.after = "step"

\* The calls of the latest call's outermost layer are one step with action 0.
OneNoopStep ==
    /\ Len(last.calls) = 1
    /\ last.calls[1].op = "step" /\ last.calls[1].act = 0

\* The calls of the latest call's outermost layer are one reset.
OneInnerReset == Len(last.calls) = 1 /\ last.calls[1].op = "reset"

\* C1 as stated: for every life count L, an inner step that takes lives from L
\* to L-1 without reporting done makes EpisodicLifeEnv.step return done, and the
\* reset that follows makes no inner reset and exactly one inner step, with
\* action 0.
C1_Original ==
    (TopIs("EpisodicLifeEnv") /\ LostOneLife) =>
        /\ prev.done
        /\ ResetAfterStep => OneNoopStep

\* C1 amended: the same for every life count L >= 2, that is when the life count
\* left after the inner step is still positive.
C1_LifeLossBoundary ==
    (TopIs("EpisodicLifeEnv") /\ LostOneLife /\ prev.l1 >= 1) =>
        /\ prev.done
        /\ ResetAfterStep => OneNoopStep

C1_Witness ==
    /\ TopIs("EpisodicLifeEnv") /\ LostOneLife /\ prev.l1 >= 1
    /\ prev.done /\ ResetAfterStep /\ OneNoopStep

\* C2: when the most recent EpisodicLifeEnv.step saw the inner step return done,
\* or no step was taken since construction, the next reset makes exactly one
\* inner reset and no inner step.
C2_RealDoneResets ==
    (TopIs("EpisodicLifeEnv") /\ last.op = "reset" /\ (~prev.stepped \/ prev.idone))
        => OneInnerReset

C2_Witness ==
    /\ TopIs("EpisodicLifeEnv") /\ ResetAfterStep
    /\ prev.stepped /\ prev.idone /\ OneInnerReset

(***************************************************************************)
(* MaxAndSkipEnv on the raw environment.                                   *)
(***************************************************************************)
RECURSIVE SumRewards(_)
SumRewards(calls) ==
    IF calls = <<>> THEN 0 ELSE Head(calls).reward + SumRewards(Tail(calls))

\* C3: MaxAndSkipEnv.step(action) issues inner steps, all with the given
\* action, stops right after the first that returns done and otherwise issues
\* exactly skip of them; it returns the sum of the rewards of the inner steps it
\* issued, and the done and info of the last of them.
C3_SkipAndSum ==
    (TopIs("MaxAndSkipEnv") /\ last.op = "step") =>
        LET c == last.calls
            n == Len(c)
        IN /\ 1 <= n /\ n <= cfg.skip
           /\ \A k \in 1..n : c[k].op = "step" /\ c[k].act = last.act
           /\ \A k \in 1..(n - 1) : ~c[k].done
           /\ n < cfg.skip => c[n].done
           /\ last.reward = SumRewards(c)
           /\ last.done = c[n].done
           /\ last.info = c[n].info

\* A step with skip = 3 that ended the episode at its second inner step.
C3_Witness ==
    /\ TopIs("MaxAndSkipEnv") /\ last.op = "step" /\ last.done
    /\ Len(last.calls) = 2 /\ cfg.skip = 3

\* One step of MaxAndSkipEnv: slot 0 holds the frame of iteration skip-2 and
\* slot 1 the frame of iteration skip-1 of this call if the call reached that
\* iteration, and otherwise what the slot held before the call; the observation
\* returned is the element-wise maximum of the two slots.
C4_StepKeepsOrWrites ==
    (TopIs("MaxAndSkipEnv") /\ last'.op = "step") =>
        LET c == last'.calls
            n == Len(c)
            s0 == IF cfg.skip >= 2 /\ n >= cfg.skip - 1
                  THEN c[cfg.skip - 1].obs ELSE obs_buffer[1]
            s1 == IF n >= cfg.skip THEN c[cfg.skip].obs ELSE obs_buffer[2]
        IN /\ obs_buffer' = <<s0, s1>>
           /\ \A p \in 1..2 :
                /\ last'.obs[p] >= s0[p] /\ last'.obs[p] >= s1[p]
                /\ last'.obs[p] \in {s0[p], s1[p]}

\* C4: MaxAndSkipEnv.step returns the element-wise maximum of the frames of
\* iterations skip-2 and skip-1, also when the loop ends early: a slot whose
\* iteration the call did not reach keeps the frame an earlier call wrote (or
\* the initial zeros).
C4_MaxOfSlots == [][C4_StepKeepsOrWrites]_vars

\* A step that ended before iteration skip-1 and left a frame of an earlier
\* call in slot 1.
C4_Witness ==
    /\ TopIs("MaxAndSkipEnv") /\ last.op = "step"
    /\ Len(last.calls) < cfg.skip /\ obs_buffer[2] # Zeros

(***************************************************************************)
(* NoopResetEnv on the raw environment.                                    *)
(***************************************************************************)
IsStep(e) == e.op = "step"
IsReset(e) == e.op = "reset"
NumSteps(calls) == Len(SelectSeq(calls, IsStep))
NumResets(calls) == Len(SelectSeq(calls, IsReset))
NumDoneSteps(calls) == Cardinality({k \in 1..Len(calls) : IsStep(calls[k]) /\ calls[k].done})

\* C5: one NoopResetEnv.reset takes between 1 and noop_max inner steps, exactly
\* override_num_noops of them when that is set, all with action 0; each no-op
\* step that returns done is followed by an inner reset and the remaining
\* no-ops are still taken, so it makes 1 + (no-op steps that returned done)
\* inner resets.
C5_NoopCount ==
    (TopIs("NoopResetEnv") /\ last.op = "reset" /\ ~last.err) =>
        LET c == last.calls
        IN /\ \A k \in 1..Len(c) : IsStep(c[k]) => c[k].act = 0
           /\ cfg.has_override => NumSteps(c) = cfg.override_num_noops
           /\ ~cfg.has_override => (1 <= NumSteps(c) /\ NumSteps(c) <= cfg.noop_max)
           /\ NumResets(c) = 1 + NumDoneSteps(c)
           /\ IsReset(c[1])
           /\ \A k \in 1..Len(c) :
                (IsStep(c[k]) /\ c[k].done) => (k < Len(c) /\ IsReset(c[k + 1]))

\* The first no-op ended the episode and the second was still taken.
C5_Witness ==
    /\ TopIs("NoopResetEnv") /\ last.op = "reset" /\ ~last.err
    /\ Len(last.calls) >= 4
    /\ IsStep(last.calls[2]) /\ last.calls[2].done
    /\ IsReset(last.calls[3]) /\ IsStep(last.calls[4])

\* C6 as stated: NoopResetEnv.reset returns the observation of the last inner
\* step it took, whatever done flags the no-op steps return.
C6_Original ==
    (TopIs("NoopResetEnv") /\ last.op = "reset" /\ ~last.err) =>
        LET steps == SelectSeq(last.calls, IsStep)
        IN last.obs = steps[Len(steps)].obs

\* C6 amended: NoopResetEnv.reset returns the observation of the last inner
\* call it made: that of the last no-op step if that step returned done =
\* false, that of the inner reset made right after it if it returned done =
\* true.
C6_LastInnerCall ==
    (TopIs("NoopResetEnv") /\ last.op = "reset" /\ ~last.err) =>
        LET c == last.calls
            steps == SelectSeq(c, IsStep)
            lastStep == steps[Len(steps)]
        IN /\ last.obs = c[Len(c)].obs
           /\ IsReset(c[Len(c)]) <=> lastStep.done
           /\ ~lastStep.done => last.obs = lastStep.obs
           /\ lastStep.done => last.obs = ResetFrame

\* A reset whose last no-op step ended the episode.
C6_Witness ==
    /\ TopIs("NoopResetEnv") /\ last.op = "reset" /\ ~last.err
    /\ IsReset(last.calls[Len(last.calls)])
    /\ NumSteps(last.calls) = 2

(***************************************************************************)
(* FireResetEnv on the raw environment.                                    *)
(***************************************************************************)
\* The actions of the steps among the calls, in order.
StepActions(calls) ==
    LET steps == SelectSeq(calls, IsStep) IN [k \in 1..Len(steps) |-> steps[k].act]

\* C7: FireResetEnv.reset issues the inner steps 1 then 2, once each; between
\* them it issues exactly one inner reset if the step with action 1 returned
\* done, and none otherwise.
C7_FireThenTwo ==
    (TopIs("FireResetEnv") /\ last.op = "reset" /\ ~last.err) =>
        LET c == last.calls
        IN /\ StepActions(c) = <<1, 2>>
           /\ IsReset(c[1]) /\ IsStep(c[2]) /\ c[2].act = 1
           /\ c[2].done => (IsReset(c[3]) /\ IsStep(c[4]) /\ c[4].act = 2)
           /\ ~c[2].done => (IsStep(c[3]) /\ c[3].act = 2)

C7_Witness ==
    /\ TopIs("FireResetEnv") /\ last.op = "reset" /\ ~last.err
    /\ last.calls[2].done /\ IsReset(last.calls[3])
    /\ IsStep(last.calls[4]) /\ last.calls[4].act = 2

\* C8 as stated: the step with action 2 is the last inner call of
\* FireResetEnv.reset, which makes 1 inner reset, plus 1 if the step with
\* action 1 returned done.
C8_Original ==
    (TopIs("FireResetEnv") /\ last.op = "reset" /\ ~last.err) =>
        LET c == last.calls
        IN /\ IsStep(c[Len(c)]) /\ c[Len(c)].act = 2
           /\ NumResets(c) = 1 + (IF c[2].done THEN 1 ELSE 0)

\* C8 amended: FireResetEnv.reset returns the observation of the step with
\* action 2 whatever that step's done flag; after that step it makes one more
\* inner reset if the step returned done and no inner call otherwise, so it
\* makes 1 inner reset, plus 1 if the step with action 1 returned done, plus 1
\* if the step with action 2 returned done.
C8_ReturnsSecondStep ==
    (TopIs("FireResetEnv") /\ last.op = "reset" /\ ~last.err) =>
        LET c == last.calls
            p == CHOOSE k \in 1..Len(c) : IsStep(c[k]) /\ c[k].act = 2
        IN /\ last.obs = c[p].obs
           /\ c[p].done => (Len(c) = p + 1 /\ IsReset(c[p + 1]))
           /\ ~c[p].done => Len(c) = p
           /\ NumResets(c) = 1 + (IF c[2].done THEN 1 ELSE 0)
                               + (IF c[p].done THEN 1 ELSE 0)

\* A reset whose step with action 2 ended the episode.
C8_Witness ==
    /\ TopIs("FireResetEnv") /\ last.op = "reset" /\ ~last.err
    /\ Len(last.calls) >= 2
    /\ IsReset(last.calls[Len(last.calls)])
    /\ last.calls[Len(last.calls) - 1].act = 2 /\ last.calls[Len(last.calls) - 1].done

(***************************************************************************)
(* Per-layer state across reset.                                           *)
(***************************************************************************)
\* C9 as stated: after MaxAndSkipEnv.reset both buffer slots hold zeros, and
\* after EpisodicLifeEnv.reset its fields hold what a freshly constructed and
\* reset wrapper holds (was_real_done true, lives the life count of a new
\* episode).
C9_Original ==
    (last.op = "reset" /\ ~last.err) =>
        /\ TopIs("MaxAndSkipEnv") => obs_buffer = <<Zeros, Zeros>>
        /\ TopIs("EpisodicLifeEnv") => (was_real_done /\ lives = cfg.maxLives)

\* One reset: MaxAndSkipEnv.reset leaves both buffer slots as they were, and
\* EpisodicLifeEnv.reset leaves was_real_done as it was and sets lives to the
\* environment's current life count.
C9_ResetKeepsFields ==
    (last'.op = "reset" /\ ~last'.err) =>
        /\ TopIs("MaxAndSkipEnv") => obs_buffer' = obs_buffer
        /\ TopIs("EpisodicLifeEnv") =>
              (was_real_done' = was_real_done /\ lives' = raw'.lives)

\* C9 amended: reset does not restore a layer's fields to their initial values:
\* MaxAndSkipEnv.reset leaves both buffer slots as they were before the call,
\* and EpisodicLifeEnv.reset leaves was_real_done as it was and sets lives to
\* the environment's current life count.
C9_ResetKeeps == [][C9_ResetKeepsFields]_vars

\* A MaxAndSkipEnv that has returned from reset with frames of earlier steps
\* in both slots.
C9_Witness ==
    /\ TopIs("MaxAndSkipEnv") /\ last.op = "reset" /\ ~last.err
    /\ obs_buffer[1] # Zeros /\ obs_buffer[2] # Zeros

(***************************************************************************)
(* AtariWrapper with terminal_on_life_loss.                                *)
(***************************************************************************)
\* C10 as stated: when a raw step of a composite step takes a life (lives stay
\* positive) without reporting done, the composite step returns done while
\* no raw step of it reported done, and the composite reset that directly
\* follows makes no raw reset unless a raw step of that reset reports done.
C10_Original ==
    (cfg.terminal_on_life_loss /\ prev.stepped /\ prev.rawLost) =>
        /\ prev.done /\ ~prev.rawDone
        /\ (ResetAfterStep /\ ~last.rawDone) => last.rawResets = 0

\* C10 amended: when no raw step of a composite step reports done and the life
\* count after the composite step is lower than before it and still positive,
\* the composite step returns done, and the composite reset that directly
\* follows makes no raw reset unless a raw step of that reset reports done.
C10_LifeLossEndsEpisode ==
    (cfg.terminal_on_life_loss /\ prev.stepped /\ ~prev.rawDone
        /\ 0 < prev.l1 /\ prev.l1 < prev.l0) =>
        /\ prev.done
        /\ (ResetAfterStep /\ ~last.rawDone) => last.rawResets = 0

C10_Witness ==
    /\ cfg.terminal_on_life_loss /\ prev.stepped /\ ~prev.rawDone
    /\ 0 < prev.l1 /\ prev.l1 < prev.l0 /\ prev.done
    /\ ResetAfterStep /\ ~last.rawDone /\ last.rawResets = 0

(***************************************************************************)
(* ClipRewardEnv, alone and on top of the composite.                       *)
(***************************************************************************)
\* The rewards of the raw steps of the latest call, in order.
RawRewards ==
    LET steps == SelectSeq(last.rawCalls, IsStep)
    IN [k \in 1..Len(steps) |-> steps[k].reward]

RECURSIVE SumSeq(_)
SumSeq(q) == IF q = <<>> THEN 0 ELSE Head(q) + SumSeq(Tail(q))

\* The sum of the signs of the numbers of q.
RECURSIVE SumOfSigns(_)
SumOfSigns(q) ==
    IF q = <<>> THEN 0
    ELSE (IF Head(q) > 0 THEN 1 ELSE IF Head(q) < 0 THEN -1 ELSE 0)
         + SumOfSigns(Tail(q))

\* C11: ClipRewardEnv returns -1 for a negative reward of its inner step, 0 for
\* 0 and +1 for a positive one; in the composite with clip_reward the reward of
\* a step is the sign of the sum of the raw rewards of its skip window.
C11_SignOfSum ==
    (cfg.clip_reward /\ TopIs("ClipRewardEnv") /\ last.op = "step") =>
        LET r == last.calls[1].reward
            total == SumSeq(RawRewards)
        IN /\ Len(last.calls) = 1
           /\ last.reward \in {-1, 0, 1}
           /\ r = 0 => last.reward = 0
           /\ r < 0 => last.reward = -1
           /\ r > 0 => last.reward = 1
           /\ total = 0 => last.reward = 0
           /\ total < 0 => last.reward = -1
           /\ total > 0 => last.reward = 1

\* A skip window with a negative and a larger positive raw reward: the sum of
\* the signs is 0, the sign of the sum is +1.
C11_Witness ==
    /\ cfg.clip_reward /\ TopIs("ClipRewardEnv") /\ last.op = "step"
    /\ Len(RawRewards) = 2 /\ SumOfSigns(RawRewards) = 0
    /\ SumSeq(RawRewards) > 0 /\ last.reward = 1

(***************************************************************************)
(* What AtariWrapper builds.                                               *)
(***************************************************************************)
LayerOrder ==
    <<"NoopResetEnv", "MaxAndSkipEnv", "EpisodicLifeEnv", "FireResetEnv",
      "WarpFrame", "ClipRewardEnv">>

\* Whether the claim has the layer in the composite of this configuration.
Expected(layer) ==
    CASE layer = "EpisodicLifeEnv" -> cfg.terminal_on_life_loss
      [] layer = "FireResetEnv" -> "FIRE" \in {cfg.meanings[k] : k \in 1..Len(cfg.meanings)}
      [] layer = "ClipRewardEnv" -> cfg.clip_reward
      [] OTHER -> TRUE

\* C12: a constructed AtariWrapper nests NoopResetEnv, MaxAndSkipEnv,
\* EpisodicLifeEnv, FireResetEnv, WarpFrame, ClipRewardEnv in this order,
\* innermost first, with EpisodicLifeEnv iff terminal_on_life_loss,
\* ClipRewardEnv iff clip_reward and FireResetEnv iff the action names hold
\* FIRE.
C12_LayerOrder ==
    (cfg.ctor = "AtariWrapper" /\ cfg.built) => cfg.stack = SelectSeq(LayerOrder, Expected)

\* A composite without EpisodicLifeEnv and ClipRewardEnv but with
\* FireResetEnv, which has been reset and stepped.
C12_Witness ==
    /\ cfg.ctor = "AtariWrapper" /\ cfg.built
    /\ ~cfg.terminal_on_life_loss /\ ~cfg.clip_reward
    /\ cfg.stack = <<"NoopResetEnv", "MaxAndSkipEnv", "FireResetEnv", "WarpFrame">>
    /\ last.op = "step"

(***************************************************************************)
(* Construction preconditions.                                             *)
(***************************************************************************)
\* The indices (from 0, as in the code) at which the action names hold FIRE.
FireIndices == {k \in 0..(Len(cfg.meanings) - 1) : cfg.meanings[k + 1] = "FIRE"}

\* Action 0 exists and is named NOOP.
ZeroIsNoop == Len(cfg.meanings) >= 1 /\ cfg.meanings[1] = "NOOP"

\* C13: NoopResetEnv is constructed iff action 0 is NOOP; FireResetEnv iff
\* action 1 is FIRE and there are at least 3 actions; AtariWrapper fails
\* exactly when action 0 is not NOOP, or FIRE is at an index other than 1, or
\* there is FIRE and fewer than 3 actions; a failed construction leaves no
\* wrapper, and no call is ever made on one.
C13_FailFast ==
    /\ cfg.ctor = "NoopResetEnv" => (cfg.built <=> ZeroIsNoop)
    /\ cfg.ctor = "FireResetEnv" =>
          (cfg.built <=> (1 \in FireIndices /\ Len(cfg.meanings) >= 3))
    /\ cfg.ctor = "AtariWrapper" =>
          (~cfg.built <=> (\/ ~ZeroIsNoop
                          \/ \E k \in FireIndices : k # 1
                          \/ (FireIndices # {} /\ Len(cfg.meanings) < 3)))
    /\ ~cfg.built => (cfg.stack = <<>> /\ last = NoCall)

\* An AtariWrapper whose construction failed in FireResetEnv: action 0 is
\* NOOP and FIRE is action 2.
C13_Witness ==
    /\ cfg.ctor = "AtariWrapper" /\ ~cfg.built
    /\ ZeroIsNoop /\ FireIndices = {2}
    /\ cfg.stack = <<>> /\ last = NoCall

(***************************************************************************)
(* EpisodicLifeEnv.step and the lives counter.                             *)
(***************************************************************************)
\* One step of EpisodicLifeEnv: it makes one inner step and returns done iff
\* that step returned done or the life count after it is positive and below
\* the stored one; observation, reward and info are those of the inner step.
C14_StepForcesDone ==
    (TopIs("EpisodicLifeEnv") /\ last'.op = "step") =>
        /\ Len(last'.calls) = 1
        /\ LET c == last'.calls[1]
           IN /\ c.op = "step" /\ c.act = last'.act
              /\ last'.done <=> (c.done \/ (0 < raw'.lives /\ raw'.lives < lives))
              /\ (raw'.lives = 0 /\ ~c.done) => ~last'.done
              /\ (raw'.lives > lives /\ ~c.done) => ~last'.done
              /\ last'.obs = c.obs /\ last'.reward = c.reward /\ last'.info = c.info

\* C14: EpisodicLifeEnv.step returns done iff the inner step returned done or
\* 0 < current lives < stored lives; a drop to 0 lives and a bonus life do not
\* force done; observation, reward and info pass unchanged.
C14_DoneIff == [][C14_StepForcesDone]_vars

\* A step that took the last life without inner done and returned done =
\* false.
C14_Witness ==
    /\ TopIs("EpisodicLifeEnv") /\ last.op = "step"
    /\ prev.l0 = 1 /\ prev.l1 = 0 /\ ~prev.idone /\ ~prev.done

\* C15: after every step and every reset of EpisodicLifeEnv the stored lives
\* counter is the environment's life count; so a step that forces done (returns
\* done while its inner step did not) lost a life during that very step.
C15_LivesRefreshed ==
    TopIs("EpisodicLifeEnv") =>
        /\ last.op # "none" => lives = raw.lives
        /\ (prev.stepped /\ prev.done /\ ~prev.idone) =>
              (0 < prev.l1 /\ prev.l1 < prev.l0)

\* A reset whose no-op step took a life: fewer lives than after the step
\* before it, and the counter follows.
C15_Witness ==
    /\ TopIs("EpisodicLifeEnv") /\ ResetAfterStep /\ OneNoopStep
    /\ 0 < raw.lives /\ raw.lives < prev.l1 /\ lives = raw.lives

(***************************************************************************)
(* NoopResetEnv without a positive number of no-ops.                       *)
(***************************************************************************)
\* The configuration allows no no-op: override_num_noops <= 0, or no override
\* and noop_max < 1.
NoNoopPossible ==
    IF cfg.has_override THEN cfg.override_num_noops <= 0 ELSE cfg.noop_max < 1

\* C16: NoopResetEnv.reset raises instead of returning an observation when
\* override_num_noops <= 0 or when noop_max < 1 leaves nothing to draw, and
\* then it has made no inner step; otherwise it returns.
C16_NoNoopsRaises ==
    (TopIs("NoopResetEnv") /\ last.op = "reset") =>
        /\ last.err <=> NoNoopPossible
        /\ last.err => (NumSteps(last.calls) = 0 /\ last.obs = EmptyObs)

\* A reset with override_num_noops = 0 that raised after its inner reset.
C16_Witness ==
    /\ TopIs("NoopResetEnv") /\ last.op = "reset" /\ last.err
    /\ cfg.has_override /\ cfg.override_num_noops = 0
    /\ NumSteps(last.calls) = 0 /\ NumResets(last.calls) = 1

(***************************************************************************)
(* EpisodicLifeEnv under a training loop that resets exactly after done.   *)
(***************************************************************************)
\* One call of EpisodicLifeEnv on the raw environment: no inner step it makes
\* goes to an episode that is over, that is one whose latest inner call is a
\* step that returned done.
C17_StepsOpenEpisode ==
    TopIs("EpisodicLifeEnv") =>
        \A k \in 1..Len(last'.calls) :
            last'.calls[k].op = "step" =>
                ~(IF k = 1 THEN raw.over
                  ELSE last'.calls[k - 1].op = "step" /\ last'.calls[k - 1].done)

\* C17 as stated: under a training loop that calls reset first and then
\* exactly after each step that returned done, EpisodicLifeEnv never makes an
\* inner step on an inner environment whose latest step returned done without
\* an inner reset in between.
C17_Original == [][C17_StepsOpenEpisode]_vars

\* EpisodicLifeEnv.reset has returned from its no-op step with the inner
\* episode over and was_real_done still false: the training loop steps next.
C17_Witness ==
    /\ TopIs("EpisodicLifeEnv") /\ ResetAfterStep /\ OneNoopStep
    /\ last.calls[1].done /\ raw.over /\ ~was_real_done /\ ~last.err

(***************************************************************************)
(* The raw calls of a composite reset.                                     *)
(***************************************************************************)
\* The calls the latest call made on the raw environment: operation and action.
RawOps == [j \in 1..Len(last.rawCalls) |-> <<last.rawCalls[j].op, last.rawCalls[j].act>>]

\* m steps with action a.
StepsOf(m, a) == [j \in 1..m |-> <<"step", a>>]

\* The two skip windows FireResetEnv.reset adds: action 1, then action 2.
FireWindows == StepsOf(cfg.skip, 1) \o StepsOf(cfg.skip, 2)

\* A composite reset of a recorded AtariWrapper with override_num_noops,
\* terminal_on_life_loss and FIRE, during which no raw step reported done and
\* no life was lost.
QuietReset ==
    /\ cfg.trace /\ cfg.ctor = "AtariWrapper" /\ cfg.has_override
    /\ cfg.terminal_on_life_loss /\ "FireResetEnv" \in {cfg.stack[j] : j \in 1..Top}
    /\ last.op = "reset" /\ ~last.err /\ ~last.rawDone /\ ~last.rawLifeLost

\* C18 as stated: such a reset sends the raw environment one reset, n steps
\* of action 0, k of action 1 and k of action 2 if it is the first reset or the
\* last composite step saw a real game over; and no reset, k steps of action
\* 0, k of action 1 and k of action 2 if the last composite step ended on a
\* life-loss boundary (n = override_num_noops, k = frame_skip).
C18_Original ==
    QuietReset =>
        /\ (last.after = "none" \/ (prev.stepped /\ prev.rawDone)) =>
              RawOps = <<<<"reset", NoAct>>>> \o StepsOf(cfg.override_num_noops, 0)
                       \o FireWindows
        /\ (prev.stepped /\ prev.done /\ ~prev.rawDone) =>
              RawOps = StepsOf(cfg.skip, 0) \o FireWindows

\* C18 amended: the same for a reset that is the first call, or that directly
\* follows a composite step that saw a real game over, or that directly
\* follows a composite step that ended on a life-loss boundary.
C18_ResetCallSequence ==
    QuietReset =>
        /\ (last.after = "none" \/ (last.after = "step" /\ prev.rawDone)) =>
              RawOps = <<<<"reset", NoAct>>>> \o StepsOf(cfg.override_num_noops, 0)
                       \o FireWindows
        /\ (last.after = "step" /\ prev.done /\ ~prev.rawDone) =>
              RawOps = StepsOf(cfg.skip, 0) \o FireWindows

\* A quiet reset right after a life-loss boundary, with n = 1 and k = 2.
C18_Witness ==
    /\ QuietReset /\ last.after = "step" /\ prev.done /\ ~prev.rawDone
    /\ cfg.override_num_noops = 1 /\ cfg.skip >= 2
    /\ RawOps = StepsOf(cfg.skip, 0) \o FireWindows

(***************************************************************************)
(* MaxAndSkipEnv: a step that ends before iteration skip-2.                *)
(***************************************************************************)
\* One step of MaxAndSkipEnv with skip >= 3 that ends at an iteration before
\* skip-2: both buffer slots stay as they were and the observation returned
\* is the one the step call before it returned, zeros if there was none.
C19_EarlyStepKeepsFrame ==
    (/\ TopIs("MaxAndSkipEnv") /\ cfg.skip >= 3
     /\ last'.op = "step" /\ Len(last'.calls) - 1 < cfg.skip - 2) =>
        /\ obs_buffer' = obs_buffer
        /\ last'.obs = IF prev.stepped THEN prev.obs ELSE Zeros

\* C19: MaxAndSkipEnv with skip >= 3: a step that terminates at an iteration
\* i < skip-2 writes neither slot and returns the observation the previous
\* step call returned (zeros if there was none), also when a reset happened
\* in between.
C19_StaleFrame == [][C19_EarlyStepKeepsFrame]_vars

\* A step that ended at its first iteration, made right after a reset, and
\* returned the frame of the step before that reset.
C19_Witness ==
    /\ TopIs("MaxAndSkipEnv") /\ cfg.skip >= 3
    /\ last.op = "step" /\ last.after = "reset"
    /\ Len(last.calls) - 1 < cfg.skip - 2
    /\ last.obs # Zeros /\ last.obs # last.calls[1].obs

====
